---- MODULE Spec2Model ----
(***************************************************************************)
(* PageSpeed Insights exporter (main.go, first program of the file: the    *)
(* variant with retry/backoff, the --initial flag and the /execute         *)
(* endpoint).                                                              *)
(*                                                                         *)
(* Goroutines: "initial" (startup sweep, main.go 209-216), "sched" (the    *)
(* minute-tick scheduler loop, 218-234) and "exec" (one /execute handler,  *)
(* 133-159).  The ticker of line 219 is the environment action Tick, the   *)
(* PageSpeed API is the environment action HttpReturn.                     *)
(*                                                                         *)
(* Strings that the code trims, splits or parses are sequences of          *)
(* one-character strings; a strategy is an atomic string.                  *)
(***************************************************************************)
EXTENDS Integers, Sequences, FiniteSets, TLC

\* ------------------------------------------------------------------ bounds
\* Ticks the ticker delivers in one run.
MaxTicks == 3
\* /execute requests served in one run.
MaxExec == 1
\* Failed attempts in one run of the whole program.
MaxFails == 1
\* Raw URLs in a list handed to expandTargets, and characters in one of them.
MaxUrls == 2
MaxUrlLen == 2
\* Characters in a --minutes argument handed to parseMinutes.
MaxMinArgLen == 4

\* ------------------------------------------------------- strings (Go stdlib)
Space == {" ", "\t"}

DigitChars == <<"0", "1", "2", "3", "4", "5", "6", "7", "8", "9">>

IsDigit(c) == \E i \in 1..10 : DigitChars[i] = c

DigitVal(c) == (CHOOSE i \in 1..10 : DigitChars[i] = c) - 1

RECURSIVE TrimLeft(_)
TrimLeft(s) ==
    IF s # <<>> /\ Head(s) \in Space THEN TrimLeft(Tail(s)) ELSE s

RECURSIVE TrimRight(_)
TrimRight(s) ==
    IF s # <<>> /\ s[Len(s)] \in Space
    THEN TrimRight(SubSeq(s, 1, Len(s) - 1))
    ELSE s

\* strings.TrimSpace
TrimSpace(s) == TrimRight(TrimLeft(s))

\* strings.Split(s, ","): the pieces between commas; "" gives one empty piece.
RECURSIVE SplitFrom(_, _, _)
SplitFrom(s, i, cur) ==
    IF i > Len(s) THEN <<cur>>
    ELSE IF s[i] = "," THEN <<cur>> \o SplitFrom(s, i + 1, <<>>)
    ELSE SplitFrom(s, i + 1, Append(cur, s[i]))

Split(s) == SplitFrom(s, 1, <<>>)

RECURSIVE DigitsValue(_, _)
DigitsValue(s, acc) ==
    IF s = <<>> THEN acc ELSE DigitsValue(Tail(s), 10 * acc + DigitVal(Head(s)))

\* strconv.Atoi: an optional sign, then one or more decimal digits.
Atoi(s) ==
    LET signed == s # <<>> /\ Head(s) \in {"+", "-"}
        ds     == IF signed THEN Tail(s) ELSE s
        okDs   == ds # <<>> /\ \A i \in 1..Len(ds) : IsDigit(ds[i])
        mag    == IF okDs THEN DigitsValue(ds, 0) ELSE 0
    IN  [ok  |-> okDs,
         val |-> IF signed /\ Head(s) = "-" THEN 0 - mag ELSE mag]

\* ------------------------------------------------------------ configuration
strategiesReversed == <<"desktop", "mobile">>

strategies == <<"mobile", "desktop">>

RECURSIVE expandTargets(_)
expandTargets(urls) ==
    IF urls = <<>> THEN <<>>
    ELSE LET u == TrimSpace(Head(urls))
         IN  (IF u = <<>> THEN <<>>
              ELSE [i \in 1..Len(strategies) |->
                        [URL |-> u, Strategy |-> strategies[i]]])
             \o expandTargets(Tail(urls))

\* A range check that lets 60 through.
InRangeInclusive(val) == val >= 0 /\ val <= 60

\* Line 183: val >= 0 && val < 60.
InRange(val) == val >= 0 /\ val < 60

RECURSIVE KeepMinutes(_)
KeepMinutes(parts) ==
    IF parts = <<>> THEN <<>>
    ELSE LET a == Atoi(TrimSpace(Head(parts)))
         IN  (IF a.ok /\ InRange(a.val) THEN <<a.val>> ELSE <<>>)
             \o KeepMinutes(Tail(parts))

parseMinutes(minArg) == KeepMinutes(Split(minArg))

\* The command line of the run that is modelled:
\*   --urls "a, "  --minutes "0,0,2"
urlsArg == <<"a", ",", " ">>

minutesArg == <<"0", ",", "0", ",", "2">>

targets == expandTargets(Split(urlsArg))

fetchMinutes == parseMinutes(minutesArg)

\* ------------------------------------------------- decoded JSON (interface{})
Nil == [t |-> "nil"]

Str == [t |-> "str"]

Num(v) == [t |-> "num", v |-> v]

Obj(f) == [t |-> "obj", f |-> f]

\* m[k] on a map[string]interface{}: nil when the key is missing (or m is nil).
Field(m, k) == IF m.t = "obj" /\ k \in DOMAIN m.f THEN m.f[k] ELSE Nil

\* x.(map[string]interface{}) and x.(float64), the tested ("comma ok") forms.
IsMap(x) == x.t = "obj"

IsFloat(x) == x.t = "num"

\* --------------------------------------------------------- the Metric Store
\* The five GaugeVecs of lines 23-47, each a map from a label pair to the
\* value last Set; a label pair has an entry once With() was called on it.
Metrics == {"perfScore", "fcp", "lcp", "cls", "tbt"}

\* Labels that leave the strategy out.
LabelsSiteOnly(t) == [site |-> t.URL, strategy |-> "mobile"]

\* Line 101: prometheus.Labels{"site": t.URL, "strategy": t.Strategy}.
Labels(t) == [site |-> t.URL, strategy |-> t.Strategy]

\* A Set that keeps the value of a series that exists already.
SetGaugeOnce(g, m, l, v) ==
    [g EXCEPT ![m] = [k \in DOMAIN @ \cup {l} |-> IF k \in DOMAIN @ THEN @[k] ELSE v]]

\* A Set that never lowers the value of a series.
SetGaugeMax(g, m, l, v) ==
    [g EXCEPT ![m] = [k \in DOMAIN @ \cup {l} |->
                         IF k # l THEN @[k]
                         ELSE IF k \in DOMAIN @ /\ @[k] > v THEN @[k] ELSE v]]

\* vec.With(labels).Set(v)
SetGauge(g, m, l, v) ==
    [g EXCEPT ![m] = [k \in DOMAIN @ \cup {l} |-> IF k = l THEN v ELSE @[k]]]

\* What a scrape shows for (m, l): <<v>>, or <<>> when the series does not exist.
Read(g, m, l) == IF l \in DOMAIN g[m] THEN <<g[m][l]>> ELSE <<>>

\* The five series of one label pair.
Series(g, l) == [m \in Metrics |-> Read(g, m, l)]

\* The audits read by lines 110-121, in the order of the code, each with the
\* gauge it feeds.
auditIds ==
    <<"first-contentful-paint", "largest-contentful-paint",
      "cumulative-layout-shift", "total-blocking-time">>

auditGauge == <<"fcp", "lcp", "cls", "tbt">>

\* ------------------------------------------------------ one attempt's outcome
\* An HTTP exchange: err is http.Get's error; body is what the JSON decoder
\* makes of the response body (Bad: Decode returns an error).
Bad == [t |-> "bad"]

NetErr == [err |-> TRUE, status |-> 0, body |-> Bad]

Http(status, body) == [err |-> FALSE, status |-> status, body |-> body]

\* Lines 110-121: audits[id].(map[string]interface{})["numericValue"].(float64).
\* The first assertion is the untested form: it panics when audits[id] is
\* missing or is not an object.
RECURSIVE WriteAudits(_, _, _, _)
WriteAudits(g, audits, l, i) ==
    IF i > Len(auditIds) THEN [outcome |-> "return", gauges |-> g]
    ELSE LET entry == Field(audits, auditIds[i])
         IN  IF ~IsMap(entry) THEN [outcome |-> "panic", gauges |-> g]
             ELSE LET nv == Field(entry, "numericValue")
                  IN  WriteAudits(IF IsFloat(nv)
                                  THEN SetGauge(g, auditGauge[i], l, nv.v)
                                  ELSE g,
                                  audits, l, i + 1)

\* Lines 103-105.
WriteScore(g, performance, l) ==
    LET score == Field(performance, "score")
    IN  IF IsFloat(score) THEN SetGauge(g, "perfScore", l, score.v) ELSE g

\* A response without an audits object taken for a failed attempt.
WriteMetricsNeedsAudits(g, result, performance, l) ==
    IF IsMap(Field(result, "audits"))
    THEN WriteAudits(WriteScore(g, performance, l), Field(result, "audits"), l, 1)
    ELSE [outcome |-> "retry", gauges |-> g]

\* Lines 107-122.
WriteMetrics(g, result, performance, l) ==
    LET g1     == WriteScore(g, performance, l)
        audits == Field(result, "audits")
    IN  IF IsMap(audits) THEN WriteAudits(g1, audits, l, 1)
        ELSE [outcome |-> "return", gauges |-> g1]

\* Lines 58-125, one iteration of the retry loop from the moment http.Get has
\* returned r: "retry" is every path that sleeps and continues.
Attempt(r, t, g) ==
    LET retry       == [outcome |-> "retry", gauges |-> g]
        result      == Field(r.body, "lighthouseResult")
        categories  == Field(result, "categories")
        performance == Field(categories, "performance")
    IN  IF r.err THEN retry
        ELSE IF r.body = Bad THEN retry
        ELSE IF ~IsMap(result) THEN retry
        ELSE IF ~IsMap(categories) THEN retry
        ELSE IF ~IsMap(performance) THEN retry
        ELSE WriteMetrics(g, result, performance, Labels(t))

\* A loop bound that is off by one.
maxRetriesOffByOne == 5 + 1

\* Line 54.
maxRetries == 5

\* Line 55, in seconds.
initialDelay == 2

\* A delay that grows by its first value instead of doubling.
NextDelayLinear(d) == d + 2

\* Line 62 (71, 80, 88, 96): delay *= 2.
NextDelay(d) == d * 2

\* Lines 213 and 228, in seconds.
pacingDelay == 2

\* ------------------------------------------------- what the API may answer
\* The numbers a response carries.
Vals == {1, 2}

Statuses == {200, 500}

\* A map without the keys whose value is Nil (a key that is missing).
Present(f) == [k \in {x \in DOMAIN f : f[x] # Nil} |-> f[k]]

\* The body {"lighthouseResult": {"categories": {"performance": {"score":
\* score}}, "audits": audits}}; Nil for score or audits leaves the key out.
Lighthouse(score, audits) ==
    Obj([lighthouseResult |->
        Obj(Present([categories |->
                        Obj([performance |-> Obj(Present([score |-> score]))]),
                     audits |-> audits]))])

Audit(v) == Obj([numericValue |-> Num(v)])

\* The audits object with all four audits numeric.
AllAudits(v) == [i \in 1..Len(auditIds) |-> Audit(v)]

AuditsOf(entries) ==
    Obj(Present([id \in {auditIds[i] : i \in 1..Len(auditIds)} |->
        entries[CHOOSE i \in 1..Len(auditIds) : auditIds[i] = id]]))

Full(v) == Lighthouse(Num(v), AuditsOf(AllAudits(v)))

\* Entries an audit id can have besides a numeric one: missing, not an
\* object, an object without numericValue, a numericValue that is no number.
OddEntries == {Nil, Str, Obj(<<>>), Obj([numericValue |-> Str])}

\* Audits objects in which at most one audit is not numeric, and the empty one.
AuditsShapes(v) ==
    {AuditsOf(AllAudits(v))}
    \cup {AuditsOf([AllAudits(v) EXCEPT ![i] = e]) :
              i \in 1..Len(auditIds), e \in OddEntries}
    \cup {Obj(<<>>)}

\* Bodies that stop before the metrics are read.
BrokenBodies ==
    {Bad, Nil, Obj(<<>>),
     Obj([lighthouseResult |-> Str]),
     Obj([lighthouseResult |-> Obj(<<>>)]),
     Obj([lighthouseResult |-> Obj([categories |-> Str])]),
     Obj([lighthouseResult |-> Obj([categories |-> Obj(<<>>)])]),
     Obj([lighthouseResult |-> Obj([categories |-> Obj([performance |-> Str])])]),
     Obj([lighthouseResult |-> Obj([audits |-> AuditsOf(AllAudits(1))])])}

LighthouseBodies ==
    UNION {{Lighthouse(score, audits) :
                score \in {Nil, Str, Num(v)},
                audits \in {Nil, Str} \cup AuditsShapes(v)} : v \in Vals}

\* Every exchange of the model.
AllResponses ==
    {NetErr} \cup {Http(st, b) : st \in Statuses, b \in BrokenBodies \cup LighthouseBodies}

\* A network error and two full results.
TwoResults == {NetErr, Http(200, Full(1)), Http(200, Full(2))}

\* A few of them: a network error, two full results, one without audits, one
\* lacking one audit, and a full result under a 500 status.
FewResponses ==
    {NetErr, Http(200, Full(1)), Http(200, Full(2)),
     Http(200, Lighthouse(Num(1), Nil)),
     Http(200, Lighthouse(Num(2), AuditsOf([AllAudits(2) EXCEPT ![3] = Nil]))),
     Http(500, Full(2))}

\* ------------------------------------------------------------------- state
Procs == {"initial", "sched", "exec"}

Sweepers == {"initial", "sched"}

VARIABLES
    gauges,            \* the Metric Store: [Metrics -> [label pair -> value]]
    pc,                \* where each goroutine stands
    tgt,               \* fetchPSIData's target
    retries,           \* fetchPSIData's retries
    delay,             \* fetchPSIData's delay, in seconds
    resp,              \* the exchange http.Get returned, until it is processed
    idx,               \* a sweep's position in targets
    tickC,             \* ticker.C, a channel of capacity 1
    clock,             \* the wall clock's minute of the hour
    minute,            \* the scheduler's minute (line 222)
    mi,                \* the scheduler's position in fetchMinutes (line 223)
    crashed,           \* a goroutine panicked: the process has exited
    execStatus,        \* how the last /execute request was answered
    withInitialFetch,  \* the --initial flag
    api,               \* which exchanges the PageSpeed API may answer with
    call,              \* a call of expandTargets or parseMinutes: argument and result
    ticksLeft,         \* ticks the ticker still delivers
    reqsLeft,          \* /execute requests still to come
    query,             \* the url and strategy parameters of the last request
    failsLeft,         \* failing answers the API still gives (-1: any number)
    \* history
    attempts,          \* the http.Get calls of the current fetchPSIData call
    sleeps,            \* the backoff sleeps of the current fetchPSIData call
    written,           \* the gauges Set in the current fetchPSIData call
    prior,             \* the target's five series when the call started
    trace,             \* the fetches, returns and pacing sleeps of the current sweep
    fired,             \* the minutes at which the ticker fired
    swept,             \* the minutes for which a scheduled sweep started
    sweeping,          \* the scheduled sweeps that started and have not finished
    held,              \* the goroutines that hold an answer, in the order they got it
    overtaken,         \* of these, the ones whose label pair was written from a later answer
    stale              \* the label pairs last written by an overtaken goroutine,
                       \* each with the series that write replaced

fetchVars == <<tgt, retries, delay, resp, attempts, sleeps, written, prior>>

schedVars == <<tickC, clock, minute, mi, fired, swept, sweeping, ticksLeft>>

envVars == <<withInitialFetch, api, call>>

reqVars == <<reqsLeft, query>>

budgetVars == <<reqVars, failsLeft>>

raceVars == <<held, overtaken, stale>>

vars == <<gauges, pc, idx, crashed, execStatus, budgetVars, trace,
          fetchVars, schedVars, envVars, raceVars>>

\* The exchanges the API of this run may answer with.
Answers ==
    IF api = "all" THEN AllResponses
    ELSE IF api = "few" THEN FewResponses
    ELSE TwoResults

NoTarget == [URL |-> <<>>, Strategy |-> ""]

NoResp == [err |-> FALSE, status |-> 0, body |-> Nil]

EmptyGauges == [m \in Metrics |-> <<>>]

\* The minute at which the process starts.
StartMinutes == {59}

\* The query parameters of an /execute request.
QueryUrls == {<<>>, <<"a">>}

QueryStrategies == {"", "mobile", "tablet"}

NoQuery == [url |-> <<>>, strategy |-> ""]

NoCall == [fn |-> "none", arg |-> <<>>, done |-> FALSE, result |-> <<>>]

InitProgram(flags, answers, ticks, reqs, fails) ==
    /\ gauges = EmptyGauges
    /\ pc = [p \in Procs |->
                IF p = "initial" THEN "start" ELSE IF p = "sched" THEN "wait" ELSE "idle"]
    /\ tgt = [p \in Procs |-> NoTarget]
    /\ retries = [p \in Procs |-> 0]
    /\ delay = [p \in Procs |-> initialDelay]
    /\ resp = [p \in Procs |-> NoResp]
    /\ idx = [p \in Sweepers |-> 0]
    /\ tickC = <<>>
    /\ clock \in StartMinutes
    /\ minute = -1
    /\ mi = 0
    /\ crashed = FALSE
    /\ execStatus = "none"
    /\ withInitialFetch \in flags
    /\ api = answers
    /\ ticksLeft = ticks
    /\ reqsLeft = reqs
    /\ query = NoQuery
    /\ failsLeft = fails
    /\ attempts = [p \in Procs |-> 0]
    /\ sleeps = [p \in Procs |-> <<>>]
    /\ written = [p \in Procs |-> {}]
    /\ prior = [p \in Procs |-> [m \in Metrics |-> <<>>]]
    /\ trace = [p \in Sweepers |-> <<>>]
    /\ fired = <<>>
    /\ swept = <<>>
    /\ sweeping = 0
    /\ held = <<>>
    /\ overtaken = {}
    /\ stale = {}

\* The program after main's lines 191-207, about to start its goroutines.
InitWith(flags, answers, ticks, reqs, fails) ==
    /\ InitProgram(flags, answers, ticks, reqs, fails)
    /\ call = NoCall

\* ------------------------------------------------------------ fetchPSIData
Event(e, t, d) == [e |-> e, t |-> t, d |-> d]

\* Lines 49-57: the call starts, with retries = 0 and delay = 2s.
StartFetch(p, t) ==
    /\ tgt' = [tgt EXCEPT ![p] = t]
    /\ retries' = [retries EXCEPT ![p] = 0]
    /\ delay' = [delay EXCEPT ![p] = initialDelay]
    /\ attempts' = [attempts EXCEPT ![p] = 1]
    /\ sleeps' = [sleeps EXCEPT ![p] = <<>>]
    /\ written' = [written EXCEPT ![p] = {}]
    /\ prior' = [prior EXCEPT ![p] = Series(gauges, Labels(t))]
    /\ UNCHANGED resp

\* Where the caller goes on when fetchPSIData returns: the sweeps sleep 2s
\* (lines 213, 228), the handler writes its answer (lines 146-158).
AfterFetch(p) == IF p = "exec" THEN "respond" ELSE "pace"

ReturnTrace(p) ==
    IF p \in Sweepers
    THEN [trace EXCEPT ![p] = @ \o <<Event("return", tgt[p], 0),
                                     Event("sleep", NoTarget, pacingDelay)>>]
    ELSE trace

\* The gauges an exchange makes the code Set.
Writes(r, t) ==
    {m \in Metrics : Read(Attempt(r, t, EmptyGauges).gauges, m, Labels(t)) # <<>>}

\* The goroutines that got their answer before p got its own, have not
\* processed it yet, and fetch p's label pair.
HeldBefore(p) ==
    {q \in Procs \ {p} :
        /\ Labels(tgt[q]) = Labels(tgt[p])
        /\ \E i, j \in 1..Len(held) : i < j /\ held[i] = q /\ held[j] = p}

\* Line 58: http.Get returns (the API answers).
HttpReturn(p) ==
    /\ ~crashed
    /\ pc[p] = "get"
    /\ \E r \in Answers :
          /\ resp' = [resp EXCEPT ![p] = r]
          /\ IF Attempt(r, tgt[p], gauges).outcome = "retry" /\ failsLeft # -1
             THEN failsLeft > 0 /\ failsLeft' = failsLeft - 1
             ELSE failsLeft' = failsLeft
    /\ pc' = [pc EXCEPT ![p] = "got"]
    /\ held' = Append(held, p)
    /\ UNCHANGED <<gauges, idx, crashed, execStatus, reqVars, trace, tgt, retries,
                   delay, attempts, sleeps, written, prior, schedVars, envVars,
                   overtaken, stale>>

\* Lines 59-125: the exchange is decoded and checked; a good one is written
\* to the gauges and the call returns, a bad one starts the backoff sleep.
\* A panic ends the process when it happens in a sweep's goroutine; in the
\* /execute handler net/http recovers it and drops the connection.
Process(p) ==
    /\ ~crashed
    /\ pc[p] = "got"
    /\ LET out == Attempt(resp[p], tgt[p], gauges)
       IN  /\ gauges' = out.gauges
           /\ written' = [written EXCEPT ![p] = @ \cup Writes(resp[p], tgt[p])]
           /\ resp' = [resp EXCEPT ![p] = NoResp]
           /\ sleeps' = [sleeps EXCEPT ![p] =
                            IF out.outcome = "retry" THEN Append(@, delay[p]) ELSE @]
           /\ pc' = [pc EXCEPT ![p] =
                        IF out.outcome = "retry" THEN "backoff"
                        ELSE IF out.outcome = "return" THEN AfterFetch(p)
                        ELSE IF p = "exec" THEN "idle" ELSE "panic"]
           /\ trace' = IF out.outcome = "return" THEN ReturnTrace(p) ELSE trace
           /\ crashed' = (out.outcome = "panic" /\ p # "exec")
           /\ execStatus' = IF out.outcome = "panic" /\ p = "exec"
                            THEN "aborted" ELSE execStatus
    /\ held' = SelectSeq(held, LAMBDA q : q # p)
    /\ IF Writes(resp[p], tgt[p]) # {}
       THEN /\ overtaken' = (overtaken \ {p}) \cup HeldBefore(p)
            /\ stale' = {s \in stale : s.l # Labels(tgt[p])} \cup
                            (IF p \in overtaken
                             THEN {[l |-> Labels(tgt[p]),
                                    newer |-> Series(gauges, Labels(tgt[p]))]}
                             ELSE {})
       ELSE /\ overtaken' = overtaken \ {p}
            /\ stale' = stale
    /\ UNCHANGED <<idx, budgetVars, tgt, retries, delay, attempts, prior,
                   schedVars, envVars>>

\* Lines 61-63 (and 70-72, 79-81, 87-89, 95-97): time.Sleep(delay) is over;
\* the delay doubles and the loop of line 57 goes on or ends (lines 128-130).
BackoffDone(p) ==
    /\ ~crashed
    /\ pc[p] = "backoff"
    /\ delay' = [delay EXCEPT ![p] = NextDelay(@)]
    /\ retries' = [retries EXCEPT ![p] = @ + 1]
    /\ IF retries[p] + 1 < maxRetries
       THEN /\ pc' = [pc EXCEPT ![p] = "get"]
            /\ attempts' = [attempts EXCEPT ![p] = @ + 1]
            /\ UNCHANGED trace
       ELSE /\ pc' = [pc EXCEPT ![p] = AfterFetch(p)]
            /\ trace' = ReturnTrace(p)
            /\ UNCHANGED attempts
    /\ UNCHANGED <<gauges, idx, crashed, execStatus, budgetVars, tgt,
                   resp, sleeps, written, prior, schedVars, envVars, raceVars>>

\* ------------------------------------------------------------------ sweeps
\* A range that steps over every other target.
NextIndexSkips(i) == i + 2

\* for _, t := range targets (lines 211, 226): the next position.
NextIndex(i) == i + 1

\* A sweep's first fetch (lines 211-212, 226-227).
FirstFetch(p) ==
    /\ idx' = [idx EXCEPT ![p] = NextIndex(0)]
    /\ trace' = [trace EXCEPT ![p] = <<Event("fetch", targets[NextIndex(0)], 0)>>]
    /\ StartFetch(p, targets[NextIndex(0)])
    /\ pc' = [pc EXCEPT ![p] = "get"]

\* A startup sweep that does not look at the flag.
RunsStartupSweepAlways(flag) == TRUE

\* Line 210: if *withInitialFetch.
RunsStartupSweep(flag) == flag

\* Lines 209-216: the goroutine of the startup sweep.
InitialStart ==
    /\ ~crashed
    /\ pc["initial"] = "start"
    /\ IF RunsStartupSweep(withInitialFetch) /\ targets # <<>>
       THEN FirstFetch("initial")
       ELSE /\ pc' = [pc EXCEPT !["initial"] = "done"]
            /\ UNCHANGED <<idx, trace, fetchVars>>
    /\ UNCHANGED <<gauges, crashed, execStatus, budgetVars, schedVars,
                   envVars, raceVars>>

\* for _, m := range fetchMinutes { if minute == m ... } (lines 223-224): the
\* first position from `from` on that holds m, 0 when there is none.
FirstMatchIn(minutes, m, from) ==
    LET hits == {i \in from..Len(minutes) : minutes[i] = m}
    IN  IF hits = {} THEN 0 ELSE CHOOSE i \in hits : \A k \in hits : i <= k

FirstMatch(m, from) == FirstMatchIn(fetchMinutes, m, from)

\* A loop without the break: the range goes on behind position i.
AfterSweepNoBreak(m, i) == FirstMatch(m, i + 1)

\* Line 230: break. Where the range over fetchMinutes goes on after the sweep
\* started at position i (0: the range is left).
AfterSweep(m, i) == 0

\* Lines 225-226: a scheduled sweep starts, for fetchMinutes[j] = m.
\* `running` is the number of scheduled sweeps that are not finished.
SweepStart(j, m, running) ==
    /\ mi' = j
    /\ swept' = Append(swept, m)
    /\ IF targets # <<>>
       THEN /\ FirstFetch("sched")
            /\ sweeping' = running + 1
       ELSE /\ pc' = [pc EXCEPT !["sched"] = "wait"]
            /\ sweeping' = running
            /\ UNCHANGED <<idx, trace, fetchVars>>

\* Line 219: the ticker fires once a minute. Its channel holds one tick; a
\* tick that finds the channel full is dropped (time.NewTicker).
tickerCap == 1

\* A minute is long for a goroutine that is ready to run: the goroutine of
\* line 209 has started before the first tick, and a loop that waits at
\* line 221 takes a tick before the next one fires. A loop that is inside
\* a sweep (in http.Get, which has no timeout, in a backoff sleep or in a
\* pacing sleep) can stay there for any number of minutes.
Tick ==
    /\ ~crashed
    /\ ticksLeft > 0
    /\ pc["initial"] # "start"
    /\ ~(pc["sched"] = "wait" /\ tickC # <<>>)
    /\ ticksLeft' = ticksLeft - 1
    /\ clock' = (clock + 1) % 60
    /\ fired' = Append(fired, clock')
    /\ tickC' = IF Len(tickC) < tickerCap THEN Append(tickC, clock') ELSE tickC
    /\ UNCHANGED <<gauges, pc, idx, crashed, execStatus, budgetVars, trace,
                   minute, mi, swept, sweeping, fetchVars, envVars, raceVars>>

\* A loop that takes a tick wherever it stands.
AtReceiveAnywhere(at) == TRUE

\* Line 221: for now := range ticker.C. The goroutine receives only when it
\* is at the head of the loop, the body of the last iteration being over.
AtReceive(at) == at = "wait"

\* Lines 221-225: the loop receives a tick and looks for its minute.
SchedRecv ==
    /\ ~crashed
    /\ AtReceive(pc["sched"])
    /\ tickC # <<>>
    /\ tickC' = Tail(tickC)
    /\ minute' = Head(tickC)
    /\ LET j == FirstMatch(Head(tickC), 1)
       IN  IF j # 0 THEN SweepStart(j, Head(tickC), sweeping)
           ELSE UNCHANGED <<mi, swept, sweeping, pc, idx, trace, fetchVars>>
    /\ UNCHANGED <<gauges, crashed, execStatus, budgetVars, clock, fired,
                   ticksLeft, envVars, raceVars>>

\* Lines 213 and 228: the pacing sleep is over; the sweep takes its next
\* target, or ends (the startup goroutine ends, the scheduler breaks out of
\* the range over fetchMinutes and waits for the next tick).
PaceDone(p) ==
    /\ ~crashed
    /\ pc[p] = "pace"
    /\ IF NextIndex(idx[p]) <= Len(targets)
       THEN /\ idx' = [idx EXCEPT ![p] = NextIndex(@)]
            /\ trace' = [trace EXCEPT ![p] =
                            Append(@, Event("fetch", targets[NextIndex(idx[p])], 0))]
            /\ StartFetch(p, targets[NextIndex(idx[p])])
            /\ pc' = [pc EXCEPT ![p] = "get"]
            /\ UNCHANGED <<mi, swept, sweeping>>
       ELSE IF p = "initial"
       THEN /\ pc' = [pc EXCEPT ![p] = "done"]
            /\ UNCHANGED <<idx, trace, fetchVars, mi, swept, sweeping>>
       ELSE LET j == AfterSweep(minute, mi)
            IN  IF j # 0 THEN SweepStart(j, minute, sweeping - 1)
                ELSE /\ pc' = [pc EXCEPT ![p] = "wait"]
                     /\ sweeping' = sweeping - 1
                     /\ UNCHANGED <<idx, trace, fetchVars, mi, swept>>
    /\ UNCHANGED <<gauges, crashed, execStatus, budgetVars, tickC, clock,
                   minute, fired, ticksLeft, envVars, raceVars>>

\* ---------------------------------------------------------------- /execute
\* A check that answers 400 only when both parameters are missing.
MissingParamBoth(url, strategy) == url = <<>> /\ strategy = ""

\* Line 137: url == "" || strategy == "".
MissingParam(url, strategy) == url = <<>> \/ strategy = ""

\* Lines 133-144: the handler reads url and strategy and calls fetchPSIData.
ExecRequest ==
    /\ ~crashed
    /\ pc["exec"] = "idle"
    /\ reqsLeft > 0
    /\ reqsLeft' = reqsLeft - 1
    /\ \E url \in QueryUrls, strategy \in QueryStrategies :
          /\ query' = [url |-> url, strategy |-> strategy]
          /\ IF MissingParam(url, strategy)
             THEN /\ execStatus' = "400"
                  /\ UNCHANGED <<pc, fetchVars>>
             ELSE /\ execStatus' = "none"
                  /\ StartFetch("exec", [URL |-> url, Strategy |-> strategy])
                  /\ pc' = [pc EXCEPT !["exec"] = "get"]
    /\ UNCHANGED <<gauges, idx, crashed, trace, failsLeft, schedVars, envVars, raceVars>>

\* Lines 146-158: the JSON answer.
ExecRespond ==
    /\ ~crashed
    /\ pc["exec"] = "respond"
    /\ pc' = [pc EXCEPT !["exec"] = "idle"]
    /\ execStatus' = "200"
    /\ UNCHANGED <<gauges, idx, crashed, budgetVars, trace, fetchVars,
                   schedVars, envVars, raceVars>>

\* ------------------------------------------------------------ specifications
Returns == \E p \in Procs : HttpReturn(p)

Processes == \E p \in Procs : Process(p)

Backoffs == \E p \in Procs : BackoffDone(p)

Paces == \E p \in Sweepers : PaceDone(p)

\* The whole program, with or without --initial, for one tick, against an API
\* that gives a full result or, MaxFails times, fails.
Init == InitWith(BOOLEAN, "two", 1, MaxExec, MaxFails)

Next ==
    \/ InitialStart
    \/ Tick
    \/ SchedRecv
    \/ ExecRequest
    \/ ExecRespond
    \/ Returns
    \/ Processes
    \/ Backoffs
    \/ Paces

Spec == Init /\ [][Next]_vars

\* Runs of either kind: the whole program with --initial for one tick
\* against an API that gives full results, or the scheduler alone for
\* MaxTicks ticks against the few answers.
InitRuns ==
    InitWith({TRUE}, "two", 1, MaxExec, 0)
        \/ InitWith({FALSE}, "few", MaxTicks, 0, -1)

SpecRuns == InitRuns /\ [][Next]_vars

\* The same without --initial: the scheduler and the /execute handler.
InitOnDemand == InitWith({FALSE}, "two", 1, MaxExec, MaxFails)

SpecOnDemand == InitOnDemand /\ [][Next]_vars

\* The scheduler alone (no --initial, no /execute request) against the few
\* answers.
InitSched == InitWith({FALSE}, "few", MaxTicks, 0, -1)

NextSched ==
    \/ InitialStart
    \/ Tick
    \/ SchedRecv
    \/ Returns
    \/ Processes
    \/ Backoffs
    \/ Paces

SpecSched == InitSched /\ [][NextSched]_vars

\* The startup sweep alone (--initial, no tick, no /execute request) against
\* an API that may answer with any exchange of the model.
InitFetch == InitWith({TRUE}, "all", 0, 0, -1)

NextFetch ==
    \/ InitialStart
    \/ Returns
    \/ Processes
    \/ Backoffs
    \/ Paces

SpecFetch == InitFetch /\ [][NextFetch]_vars

\* One sweep at a time against the few answers: a run with --initial and no
\* tick, or a run without --initial whose sweeps are the scheduler's.
InitSweep ==
    InitWith({TRUE}, "few", 0, 0, -1) \/ InitWith({FALSE}, "few", MaxTicks, 0, -1)

SpecSweep == InitSweep /\ [][NextSched]_vars

\* ------------------------------------------- expandTargets, parseMinutes
\* The sequences over `chars` of length at most n.
SeqsUpTo(chars, n) == UNION {[1..k -> chars] : k \in 0..n}

\* The raw URLs of up to n characters, and the lists of up to k of them.
UrlChars == {"a", " "}

RawUrls(n) == SeqsUpTo(UrlChars, n)

RawUrlLists(k, n) == SeqsUpTo(RawUrls(n), k)

\* The --minutes arguments of up to n characters.
MinuteChars == {"0", "5", "6", "9", "-", "+", "x", " ", ","}

MinuteArgs(n) == SeqsUpTo(MinuteChars, n)

Calls(k, n, m) ==
    {[fn |-> "expandTargets", arg |-> us, done |-> FALSE, result |-> <<>>] :
        us \in RawUrlLists(k, n)}
    \cup
    {[fn |-> "parseMinutes", arg |-> a, done |-> FALSE, result |-> <<>>] :
        a \in MinuteArgs(m)}

\* main has taken its flags and is about to call one of the two functions
\* (lines 202-204); no goroutine has started.
InitCalls ==
    /\ InitProgram({FALSE}, "two", 0, 0, 0)
    /\ call \in Calls(MaxUrls, MaxUrlLen, MaxMinArgLen)

\* Line 203: targets := expandTargets(urls).
ExpandTargetsCall ==
    /\ call.fn = "expandTargets"
    /\ ~call.done
    /\ call' = [call EXCEPT !.done = TRUE, !.result = expandTargets(call.arg)]
    /\ UNCHANGED <<gauges, pc, idx, crashed, execStatus, budgetVars, trace,
                   fetchVars, schedVars, withInitialFetch, api, raceVars>>

\* Line 204: fetchMinutes := parseMinutes(*minutesArg).
ParseMinutesCall ==
    /\ call.fn = "parseMinutes"
    /\ ~call.done
    /\ call' = [call EXCEPT !.done = TRUE, !.result = parseMinutes(call.arg)]
    /\ UNCHANGED <<gauges, pc, idx, crashed, execStatus, budgetVars, trace,
                   fetchVars, schedVars, withInitialFetch, api, raceVars>>

NextCalls ==
    \/ ExpandTargetsCall
    \/ ParseMinutesCall

SpecCalls == InitCalls /\ [][NextCalls]_vars

\* ================================================================== claims
Attempting == {"get", "got", "backoff"}

Range(q) == {q[i] : i \in 1..Len(q)}

IsPrefix(a, b) == Len(a) <= Len(b) /\ a = SubSeq(b, 1, Len(a))

\* ---------------------------------------------------------------------- C1
\* C1: a fetchPSIData call makes at most 5 attempts; while it is still
\* attempting, every earlier attempt of the call failed (it slept, and set
\* no gauge), so the first successful attempt is the last one; and when 5
\* attempts have failed the call has returned to its caller without a panic,
\* having set no gauge: the target's series are what they were when the call
\* started.
C1_AtMostFiveAttempts ==
    \A p \in Procs :
        /\ attempts[p] <= 5
        /\ pc[p] \in Attempting =>
              /\ written[p] = {}
              /\ Len(sleeps[p]) = attempts[p] - (IF pc[p] = "backoff" THEN 0 ELSE 1)
        /\ retries[p] >= 5 =>
              /\ retries[p] = 5
              /\ attempts[p] = 5
              /\ pc[p] \notin Attempting \cup {"panic"}
              /\ written[p] = {}
              /\ Series(gauges, Labels(tgt[p])) = prior[p]

\* The startup sweep has given up its first target after 5 failed attempts
\* and is in the pacing sleep that follows the call.
C1_Witness ==
    /\ pc["initial"] = "pace"
    /\ idx["initial"] = 1
    /\ retries["initial"] = 5
    /\ attempts["initial"] = 5
    /\ ~crashed

\* ---------------------------------------------------------------------- C2
backoffs == <<2, 4, 8, 16, 32>>

\* C2: the backoff sleeps of a call are, in order, a prefix of 2s, 4s, 8s,
\* 16s, 32s, one sleep for each failed attempt whatever made it fail; a call
\* that failed 5 times has slept exactly 2, 4, 8, 16, 32; and a call that
\* has not failed yet has its delay at 2s, whatever earlier calls did.
C2_BackoffDoubles ==
    \A p \in Procs :
        /\ IsPrefix(sleeps[p], backoffs)
        /\ Len(sleeps[p]) = retries[p] + (IF pc[p] = "backoff" THEN 1 ELSE 0)
        /\ retries[p] = 5 => sleeps[p] = backoffs
        /\ pc[p] \in Attempting /\ retries[p] = 0 => delay[p] = 2

\* The second call of the startup sweep has failed 5 times and has slept 2, 4,
\* 8, 16, 32, its delay now at 64s.
C2_Witness ==
    /\ idx["initial"] = 2
    /\ pc["initial"] = "pace"
    /\ sleeps["initial"] = backoffs
    /\ delay["initial"] = 64

\* ------------------------------------------------- reading an exchange
\* The step in which goroutine p processes the exchange it holds.
Processing(p) == pc[p] = "got" /\ pc'[p] # "got"

Decoded(r) == ~r.err /\ r.body # Bad

ResultOf(r) == Field(r.body, "lighthouseResult")

PerformanceOf(r) == Field(Field(ResultOf(r), "categories"), "performance")

AuditsIn(r) == Field(ResultOf(r), "audits")

ScoreOf(r) == Field(PerformanceOf(r), "score")

NumericValueOf(r, i) == Field(Field(AuditsIn(r), auditIds[i]), "numericValue")

\* A 200 answer with a numeric score whose audits object lacks audit i alone,
\* the three others being numeric.
LacksOnly(r, i) ==
    /\ Decoded(r) /\ r.status = 200
    /\ IsMap(PerformanceOf(r)) /\ IsFloat(ScoreOf(r))
    /\ IsMap(AuditsIn(r)) /\ auditIds[i] \notin DOMAIN AuditsIn(r).f
    /\ \A j \in 1..Len(auditIds) : j # i => IsFloat(NumericValueOf(r, j))

\* ---------------------------------------------------------------------- C3
\* C3: an answer with a valid score whose audits object lacks exactly one of
\* the four audits is a success: the call returns to its caller, the score
\* and the three audits present are written for the target's label pair, and
\* the gauge of the missing audit keeps its value.
C3_PartialSuccess ==
    [][\A p \in Procs : \A i \in 1..Len(auditIds) :
          Processing(p) /\ LacksOnly(resp[p], i) =>
              /\ pc'[p] = AfterFetch(p)
              /\ Read(gauges', "perfScore", Labels(tgt[p])) = <<ScoreOf(resp[p]).v>>
              /\ \A j \in 1..Len(auditIds) : j # i =>
                    Read(gauges', auditGauge[j], Labels(tgt[p]))
                        = <<NumericValueOf(resp[p], j).v>>
              /\ Read(gauges', auditGauge[i], Labels(tgt[p]))
                    = Read(gauges, auditGauge[i], Labels(tgt[p]))]_vars

\* ---------------------------------------------------------------------- C4
\* C4: no answer of the API makes fetchPSIData panic: no goroutine is ever
\* stopped by a panic and the process never exits, so the scheduler goes on
\* with the targets and ticks that follow.
C4_NoResponseCrashes == ~crashed /\ \A p \in Procs : pc[p] # "panic"

\* ---------------------------------------------------------------------- C5
LacksPerformance(r) == Decoded(r) /\ ~IsMap(PerformanceOf(r))

LacksAudits(r) == Decoded(r) /\ ~IsMap(AuditsIn(r))

\* What a failed attempt does: no gauge is Set and the backoff sleep of the
\* current delay starts.
Retried(p) ==
    /\ gauges' = gauges
    /\ pc'[p] = "backoff"
    /\ sleeps'[p] = Append(sleeps[p], delay[p])

\* After the backoff sleep another attempt follows unless 5 were made.
RetriesUnlessFifth ==
    \A p \in Procs :
        pc[p] = "backoff" /\ pc'[p] # "backoff" =>
            pc'[p] = (IF attempts[p] < 5 THEN "get" ELSE AfterFetch(p))

C6_BadStatusRetried ==
    [][\A p \in Procs :
          Processing(p) /\ ~resp[p].err /\ resp[p].status # 200 => Retried(p)]_vars

\* ---------------------------------------------------------------------- C7
\* C7: a fetch that gets a full valid answer leaves, for the target's label
\* pair, exactly the five values of that answer, whatever an earlier fetch
\* had written there, in a single series per gauge, and leaves the series of
\* every other label pair as they were.
C7_LatestWriteWins ==
    [][\A p \in Procs : \A v \in Vals :
          Processing(p) /\ resp[p] = Http(200, Full(v)) =>
              /\ pc'[p] = AfterFetch(p)
              /\ \A m \in Metrics :
                    /\ Read(gauges', m, Labels(tgt[p])) = <<v>>
                    /\ DOMAIN gauges'[m] = DOMAIN gauges[m] \cup {Labels(tgt[p])}
                    /\ \A l \in DOMAIN gauges[m] :
                          l # Labels(tgt[p]) => gauges'[m][l] = gauges[m][l]]_vars

\* The second sweep has fetched a target again: its five series held 1 when
\* the call started and hold 2 now.
C7_Witness ==
    /\ Len(swept) = 2
    /\ pc["sched"] = "pace"
    /\ prior["sched"] = [m \in Metrics |-> <<1>>]
    /\ Series(gauges, Labels(tgt["sched"])) = [m \in Metrics |-> <<2>>]

\* ---------------------------------------------------------------------- C8
\* The step in which the scheduler loop takes a tick from the channel.
Receiving == Len(tickC') < Len(tickC)

\* C8: the loop starts a sweep for a tick exactly when the tick's minute is
\* one of the configured minutes, and then starts one sweep at the first
\* target, however often the minute is listed; a tick of any other minute
\* starts none; and no sweep starts in any other step, so a tick never gets
\* a second sweep.
C8_OneSweepPerMatchingTick ==
    [][IF Receiving
       THEN IF Head(tickC) \in Range(fetchMinutes)
            THEN /\ swept' = Append(swept, Head(tickC))
                 /\ pc'["sched"] = "get"
                 /\ tgt'["sched"] = targets[1]
            ELSE /\ swept' = swept
                 /\ pc'["sched"] = "wait"
       ELSE swept' = swept]_vars

\* The tick of minute 0, listed twice, got one sweep, which is over; the tick
\* of minute 1 was read after it and started none.
C8_Witness ==
    /\ swept = <<0>>
    /\ minute = 1
    /\ pc["sched"] = "wait"
    /\ Len(trace["sched"]) = 3 * Len(targets)

\* ---------------------------------------------------------------------- C9
\* C9: every configured minute the clock has reached gets its sweep: once
\* the scheduler has nothing left to read (it waits on an empty channel), a
\* sweep has been started for each tick whose minute is configured.
C9_EveryTriggerMinuteSwept ==
    pc["sched"] = "wait" /\ tickC = <<>> =>
        \A i \in 1..Len(fired) :
            fired[i] \in Range(fetchMinutes) => fired[i] \in Range(swept)

\* --------------------------------------------------------------------- C10
\* What a whole sweep does: for each target in the order of targets, the
\* fetch, its return, and the 2s pacing sleep.
RECURSIVE SweepOf(_)
SweepOf(ts) ==
    IF ts = <<>> THEN <<>>
    ELSE <<Event("fetch", Head(ts), 0), Event("return", Head(ts), 0),
           Event("sleep", NoTarget, 2)>> \o SweepOf(Tail(ts))

\* C10: what a sweep has done so far is a beginning of: fetch target 1, its
\* return, a 2s sleep, fetch target 2, its return, a 2s sleep, ...; a fetch
\* is under way (with its retries) only as the last thing started, a pacing
\* sleep only right after a return; and a sweep that is over has fetched
\* every target once.
C10_SweepInOrder ==
    \A p \in Sweepers :
        /\ IsPrefix(trace[p], SweepOf(targets))
        /\ pc[p] \in Attempting =>
              /\ trace[p] # <<>>
              /\ trace[p][Len(trace[p])] = Event("fetch", tgt[p], 0)
              /\ tgt[p] = targets[idx[p]]
        /\ pc[p] = "pace" =>
              /\ trace[p] # <<>>
              /\ trace[p][Len(trace[p])] = Event("sleep", NoTarget, 2)
              /\ Len(trace[p]) = 3 * idx[p]
        /\ pc[p] \in {"wait", "done"} /\ trace[p] # <<>> => trace[p] = SweepOf(targets)

\* The scheduled sweep is in the fifth attempt of its second fetch, which
\* started after the first fetch had returned and the pacing sleep was over.
C10_Witness ==
    /\ pc["sched"] = "got"
    /\ idx["sched"] = 2
    /\ attempts["sched"] = 5
    /\ trace["sched"] = SubSeq(SweepOf(targets), 1, 4)

\* --------------------------------------------------------------------- C11
\* C11 as stated: with --initial, a scheduled sweep starts only when the
\* startup sweep is over, having fetched every target once; without
\* --initial, no sweep fetches anything before a tick of a configured minute
\* has fired.
C11_StartupSweepFirst ==
    /\ withInitialFetch /\ swept # <<>> =>
          /\ pc["initial"] = "done"
          /\ trace["initial"] = SweepOf(targets)
    /\ ~withInitialFetch /\ Range(fired) \cap Range(fetchMinutes) = {} =>
          \A p \in Sweepers : trace[p] = <<>> /\ attempts[p] = 0

\* C11 amended: with --initial, the startup goroutine makes one sweep, the
\* targets in order and each at most once, which is a full sweep when the
\* goroutine has ended, and the scheduler does not wait for it; without
\* --initial the startup goroutine fetches nothing; and in both cases the
\* scheduler has fetched something only if it started a sweep for a tick of
\* a configured minute.
C11_StartupSweepConcurrent ==
    /\ withInitialFetch =>
          /\ IsPrefix(trace["initial"], SweepOf(targets))
          /\ pc["initial"] # "start" => trace["initial"] # <<>>
          /\ pc["initial"] = "done" => trace["initial"] = SweepOf(targets)
    /\ ~withInitialFetch =>
          /\ trace["initial"] = <<>>
          /\ attempts["initial"] = 0
          /\ pc["initial"] \in {"start", "done"}
    /\ trace["sched"] # <<>> \/ attempts["sched"] # 0 =>
          /\ swept # <<>>
          /\ Range(swept) \subseteq Range(fired) \cap Range(fetchMinutes)

\* With --initial, the scheduled sweep of minute 0 has fetched and written
\* its first target while the startup sweep still waits for the answer to
\* its first request.
C11_Witness ==
    /\ withInitialFetch
    /\ swept = <<0>>
    /\ pc["sched"] = "pace"
    /\ written["sched"] = Metrics
    /\ idx["initial"] = 1
    /\ pc["initial"] = "get"
    /\ attempts["initial"] = 1

\* --------------------------------------------------------------------- C12
\* The step in which the /execute handler takes a request.
Requesting == reqsLeft' # reqsLeft

\* C12: a request whose url or strategy parameter is missing or empty is
\* answered with 400: no fetchPSIData call starts (no http.Get is made),
\* and the gauges, the sweeps and the scheduler are left as they were; a
\* request that has both starts a fetch of that url and strategy.
C12_MissingParamIs400 ==
    [][Requesting =>
          IF query'.url = <<>> \/ query'.strategy = ""
          THEN /\ execStatus' = "400"
               /\ pc' = pc
               /\ UNCHANGED <<gauges, fetchVars, schedVars, idx, trace, crashed>>
          ELSE /\ execStatus' # "400"
               /\ pc'["exec"] = "get"
               /\ attempts'["exec"] = 1
               /\ tgt'["exec"] = [URL |-> query'.url, Strategy |-> query'.strategy]]_vars

\* A request with a url and no strategy was answered 400 while the scheduled
\* sweep was waiting for the API: the handler is idle and made no attempt.
C12_Witness ==
    /\ execStatus = "400"
    /\ query = [url |-> <<"a">>, strategy |-> ""]
    /\ pc["exec"] = "idle"
    /\ attempts["exec"] = 0
    /\ pc["sched"] = "get"

\* --------------------------------------------------------------------- C13
\* What an answer holds for gauge m.
MeasuredIn(r, m) ==
    IF m = "perfScore" THEN ScoreOf(r)
    ELSE NumericValueOf(r, CHOOSE i \in 1..Len(auditGauge) : auditGauge[i] = m)

\* C13: the stored value of a series is the value of the last write on it:
\* a series changes only in the step in which a goroutine processes its
\* answer for that label pair, and then to the number that answer holds; and
\* a goroutine that processes a full answer stores its five values whether
\* or not a later answer was written there in the meantime (nothing checks
\* the age of a measurement).
C13_LastWriteStored ==
    [][/\ \A m \in Metrics : \A l \in DOMAIN gauges'[m] :
             Read(gauges', m, l) # Read(gauges, m, l) =>
                 \E p \in Procs :
                     /\ Processing(p)
                     /\ Labels(tgt[p]) = l
                     /\ IsFloat(MeasuredIn(resp[p], m))
                     /\ gauges'[m][l] = MeasuredIn(resp[p], m).v
       /\ \A m \in Metrics : DOMAIN gauges[m] \subseteq DOMAIN gauges'[m]
       /\ \A p \in Procs : \A v \in Vals :
             Processing(p) /\ resp[p] = Http(200, Full(v)) =>
                 Series(gauges', Labels(tgt[p])) = [m \in Metrics |-> <<v>>]]_vars

\* Without --initial, the scheduled sweep, at the second attempt for its first
\* target, and an /execute request for the same label pair overlapped: the
\* answer 2 was obtained after the answer 1 and written before it, and the
\* series show 1, the older measurement.
C13_Witness ==
    /\ ~withInitialFetch
    /\ pc["sched"] = "pace"
    /\ idx["sched"] = 1
    /\ attempts["sched"] = 2
    /\ pc["exec"] = "respond"
    /\ tgt["exec"] = targets[1]
    /\ stale = {[l |-> Labels(targets[1]), newer |-> [m \in Metrics |-> <<2>>]]}
    /\ Series(gauges, Labels(targets[1])) = [m \in Metrics |-> <<1>>]

\* --------------------------------------------------------------------- C14
\* s consists of white space only.
Blank(s) == \A i \in 1..Len(s) : s[i] \in Space

\* u is s without the white space at its two ends.
IsTrimOf(u, s) ==
    \E i \in 1..Len(s) + 1, j \in 0..Len(s) :
        /\ u = SubSeq(s, i, j)
        /\ \A k \in 1..Len(s) : k < i \/ k > j => s[k] \in Space
        /\ u # <<>> => u[1] \notin Space /\ u[Len(u)] \notin Space

\* The positions of the non-blank entries of a list, and how many of them
\* there are up to position i.
NonBlank(urls) == {i \in 1..Len(urls) : ~Blank(urls[i])}

Rank(urls, i) == Cardinality({j \in NonBlank(urls) : j <= i})

\* C14: expandTargets returns two targets for each entry that is not blank,
\* in the order of the entries, the mobile target then the desktop target,
\* both with the entry trimmed as URL; equal entries give their targets
\* again, and blank entries give none.
C14_ExpandTargets ==
    call.fn = "expandTargets" /\ call.done =>
        LET urls == call.arg
            out  == call.result
        IN  /\ Len(out) = 2 * Cardinality(NonBlank(urls))
            /\ \A i \in NonBlank(urls) :
                  /\ IsTrimOf(out[2 * Rank(urls, i) - 1].URL, urls[i])
                  /\ out[2 * Rank(urls, i) - 1].Strategy = "mobile"
                  /\ out[2 * Rank(urls, i)].URL = out[2 * Rank(urls, i) - 1].URL
                  /\ out[2 * Rank(urls, i)].Strategy = "desktop"

\* expandTargets was called with " a" and "a ": the same URL twice, four
\* targets.
C14_Witness ==
    /\ call.fn = "expandTargets"
    /\ call.done
    /\ call.arg = << <<" ", "a">>, <<"a", " ">> >>
    /\ call.result = << [URL |-> <<"a">>, Strategy |-> "mobile"],
                        [URL |-> <<"a">>, Strategy |-> "desktop"],
                        [URL |-> <<"a">>, Strategy |-> "mobile"],
                        [URL |-> <<"a">>, Strategy |-> "desktop"] >>

\* --------------------------------------------------------------------- C15
\* The k-th smallest element of a set of numbers.
Kth(S, k) == CHOOSE x \in S : Cardinality({y \in S : y < x}) = k - 1

\* The entries of a comma-separated string: what stands between two
\* neighbouring separators, the two ends of the string counting as separators.
Entries(s) ==
    LET seps == {0, Len(s) + 1} \cup {i \in 1..Len(s) : s[i] = ","}
    IN  [k \in 1..Cardinality(seps) - 1 |->
            SubSeq(s, Kth(seps, k) + 1, Kth(seps, k + 1) - 1)]

\* The decimal numeral of n, for n in 0..59.
Numeral(n) ==
    IF n < 10 THEN <<DigitChars[n + 1]>>
    ELSE <<DigitChars[(n \div 10) + 1], DigitChars[(n % 10) + 1]>>

\* e writes the integer n of 0..59: an optional sign (a minus sign before
\* zero only), any number of zeros, and the numeral of n.
Writes0to59(e, n) ==
    \E i \in 1..Len(e) :
        /\ SubSeq(e, i, Len(e)) = Numeral(n)
        /\ \A k \in 1..i - 1 :
              \/ e[k] = "0"
              \/ k = 1 /\ e[k] = "+"
              \/ k = 1 /\ e[k] = "-" /\ n = 0

\* s from its first to its last character that is not white space.
Trimmed(s) ==
    LET ink == {k \in 1..Len(s) : s[k] \notin Space}
    IN  IF ink = {} THEN <<>>
        ELSE SubSeq(s, Kth(ink, 1), Kth(ink, Cardinality(ink)))

\* The minute an entry stands for, if it stands for one.
MinuteOf(entry) ==
    LET e == Trimmed(entry)
    IN  IF \E n \in 0..59 : Writes0to59(e, n)
        THEN <<CHOOSE n \in 0..59 : Writes0to59(e, n)>>
        ELSE <<>>

RECURSIVE MinutesOf(_)
MinutesOf(entries) ==
    IF entries = <<>> THEN <<>>
    ELSE MinuteOf(Head(entries)) \o MinutesOf(Tail(entries))

\* C15: parseMinutes returns, in the order of the argument, the minutes of
\* the comma-separated entries that, trimmed, write an integer of 0..59, and
\* nothing for any other entry; every minute it returns is in 0..59; and
\* when it returns none, no minute of the hour finds a match in the
\* scheduler's search, so no sweep starts.
C15_ParseMinutes ==
    call.fn = "parseMinutes" /\ call.done =>
        /\ call.result = MinutesOf(Entries(call.arg))
        /\ \A i \in 1..Len(call.result) : call.result[i] \in 0..59
        /\ call.result = <<>> =>
              \A m \in 0..59 : FirstMatchIn(call.result, m, 1) = 0

\* parseMinutes was called with "5,60": 5 is kept, 60 is not.
C15_Witness ==
    /\ call.fn = "parseMinutes"
    /\ call.done
    /\ call.arg = <<"5", ",", "6", "0">>
    /\ call.result = <<5>>

\* --------------------------------------------------------------------- C16
\* C16: the target of every fetchPSIData call, in a sweep or for /execute,
\* has the strategy mobile or desktop, and so has the strategy label of
\* every series of the five gauges.
C16_StrategyMobileOrDesktop ==
    /\ \A p \in Procs :
          tgt[p] # NoTarget => tgt[p].Strategy \in {"mobile", "desktop"}
    /\ \A m \in Metrics : \A l \in DOMAIN gauges[m] :
          l.strategy \in {"mobile", "desktop"}

\* --------------------------------------------------------------------- C17
\* C17, as what a finished run shows: a sweep's goroutine is either inside a
\* fetchPSIData call or a pacing sleep, or it has made no sweep, or its last
\* sweep has fetched every target, each call having returned to the loop
\* (after a success or after 5 failed attempts), the scheduler then waiting
\* for the next tick; and a call made for /execute returns to the handler.
C17_SweepsRunToCompletion ==
    /\ \A p \in Sweepers :
          pc[p] \notin Attempting \cup {"pace"} =>
              /\ pc[p] \in {"start", "done", "wait"}
              /\ trace[p] \in {<<>>, SweepOf(targets)}
    /\ \A p \in Procs :
          attempts[p] > 0 /\ pc[p] \notin Attempting =>
              pc[p] \in {"pace", "respond", "done", "wait", "idle"}
    /\ execStatus # "aborted"

\* --------------------------------------------------------------------- C18
\* The series (m, l) is one of the target's five.
OwnKey(l, t) == l.site = t.URL /\ l.strategy = t.Strategy

\* C18: the step in which a fetchPSIData call processes an answer leaves
\* every series of another site or another strategy as it was, whether the
\* call writes all five gauges, some of them or none; and no other step of a
\* call (the request, the backoff sleep, the return) changes a series.
C18_FetchFrame ==
    [][/\ \A p \in Procs :
             Processing(p) =>
                 \A m \in Metrics : \A l \in DOMAIN gauges'[m] :
                     ~OwnKey(l, tgt[p]) =>
                         l \in DOMAIN gauges[m] /\ gauges'[m][l] = gauges[m][l]
       /\ \A m \in Metrics : DOMAIN gauges[m] \subseteq DOMAIN gauges'[m]
       /\ (\A p \in Procs : ~Processing(p)) => gauges' = gauges]_vars

\* The startup sweep wrote 1 for its first target; the call for the second
\* target was answered 2 with an audit missing and stopped after writing
\* three gauges: the first target's series still hold 1.
C18_Witness ==
    /\ idx["initial"] = 2
    /\ pc["initial"] = "panic"
    /\ written["initial"] = {"perfScore", "fcp", "lcp"}
    /\ Series(gauges, Labels(targets[1])) = [m \in Metrics |-> <<1>>]
    /\ Read(gauges, "perfScore", Labels(targets[2])) = <<2>>
    /\ Read(gauges, "tbt", Labels(targets[2])) = <<>>

\* --------------------------------------------------------------------- C19
\* C19: at most one scheduled sweep is under way: while one is, the
\* scheduler goroutine is inside it and the last tick it read is the one
\* that started it (no tick is read before the sweep is over); when none is,
\* the goroutine waits for a tick. The startup sweep and an /execute fetch
\* are not counted: they may be under way at the same time.
C19_OneScheduledSweep ==
    /\ sweeping \in {0, 1}
    /\ sweeping = 1 =>
          /\ pc["sched"] \in Attempting \cup {"pace", "panic"}
          /\ swept # <<>>
          /\ minute = swept[Len(swept)]
          /\ IsPrefix(trace["sched"], SweepOf(targets))
    /\ sweeping = 0 => pc["sched"] = "wait"

\* A scheduled sweep, the startup sweep and an /execute fetch are all
\* waiting for the API at the same time.
C19_Witness ==
    /\ sweeping = 1
    /\ pc["sched"] = "get"
    /\ pc["initial"] = "get"
    /\ pc["exec"] = "get"

====
